---- MODULE Spec2Model ----
(***************************************************************************)
(* Model of WebSocketDashboardClient (src/websocket_client.py): the        *)
(* connection manager with reconnect backoff, the outbound queue with the  *)
(* batching send worker, the heartbeat worker, the inbound dispatcher and  *)
(* start()/stop().                                                         *)
(*                                                                         *)
(* The client runs on one asyncio event loop, so every action below is the *)
(* code that runs between two suspension points (await of a connect, a     *)
(* send, a close or a sleep).  Sleeps carry no clock: a sleeping task may  *)
(* wake at any later step.                                                 *)
(***************************************************************************)
EXTENDS Integers, Sequences, FiniteSets, TLC

\* ------------------------------------------------------------- bounds
MaxRuns == 2        \* start() calls that create tasks
MaxSockets == 2     \* transport connects that succeed
MaxSeq == 4         \* sequence ids handed out during a run
MaxInbound == 1     \* inbound frames the read loop receives
MaxFails == 12      \* consecutive connects of one manager that fail
MaxStops == 2       \* stop() calls between two start() calls
MaxHeartbeats == 1  \* heartbeats the heartbeat worker sends
MaxBacklog == 26    \* largest queue the send-cycle scenario starts with

VARIABLES
    limits,              \* the bounds of the run being explored
    cfg,                 \* attributes read from the constructor's config
    config,              \* self.config, the live configuration dict
    is_running,
    is_connected,
    websocket,           \* self.websocket: 0 is None, else a socket id
    reconnect_attempts,
    sequence_id,
    message_queue,
    stats,
    socks,               \* every socket ever opened: its transport state
    mgr,                 \* the _connection_manager task of each start()
    run,                 \* start() calls that created tasks so far
    send_pc,             \* self.send_task
    hb_pc,               \* self.heartbeat_task
    ctl_pc,              \* a stop() call: idle, or suspended in websocket.close()
    stops,               \* stop() calls returned since the last start()
    wire,                \* every websocket.send() call, in call order
    enqueued,            \* every envelope put on the queue, in put order
    inbound,             \* inbound frames received so far
    last_in,             \* the last inbound frame dispatched
    dropped,             \* inbound frames dropped for being malformed
    budget,              \* sequence ids that may still be handed out
    pending              \* the websocket.send() each caller is suspended in

vars == <<limits, cfg, config, is_running, is_connected, websocket, reconnect_attempts,
          sequence_id, message_queue, stats, socks, mgr, run, send_pc, hb_pc,
          ctl_pc, stops, wire, enqueued, inbound, last_in, dropped, budget,
          pending>>

Min(a, b) == IF a < b THEN a ELSE b

Managers == 1..MaxRuns
SocketIds == 1..MaxSockets

\* __init__: config.get('max_reconnect_attempts', 10), config.get('reconnect_delay', 5),
\* config.get('max_reconnect_delay', 300), config.get('batch_size', 10).
DefaultConfig ==
    [max_reconnect_attempts |-> 10, reconnect_delay |-> 5,
     max_reconnect_delay |-> 300, batch_size |-> 10]

\* load_dashboard_config_from_dict(TESTING_CONFIG): the connection and
\* publishing sections over the defaults.
TestingConfig ==
    [max_reconnect_attempts |-> 3, reconnect_delay |-> 1,
     max_reconnect_delay |-> 300, batch_size |-> 5]

\* A client constructed with the testing connection values and
\* 'batch_size': 2, which a short backlog already outgrows.
SmallBatchConfig == [TestingConfig EXCEPT !.batch_size = 2]

Configs == {DefaultConfig, TestingConfig}

QueuedTypes == {"portfolio_update", "trade_signal", "risk_alert", "system_status"}

\* What a caller hands to send_portfolio_data, send_trade_signal or
\* send_risk_alert (Dict[str, Any], stored in the envelope as it is): a dict
\* that json.dumps serializes; a dict with a key json.dumps rejects, such as
\* {(1, 2): 'x'}, which copy.deepcopy copies; a dict that holds an object
\* copy.deepcopy rejects, such as a threading.Lock.
Payload == [payload |-> "data"]
TupleKeyPayload == [payload |-> "tuple key"]
LockPayload == [payload |-> "lock"]
Payloads == {Payload, TupleKeyPayload, LockPayload}

\* DashboardMessage
DashboardMessage(t, d, s) == [message_type |-> t, data |-> d, sequence_id |-> s]

\* One websocket.send() call: the socket, the envelope, and whether it raised.
Frame(w, msg, ok) == [sock |-> w, msg |-> msg, ok |-> ok]

NoMgr == [pc |-> "none", sock |-> 0, delay |-> 0, fails |-> 0]

InitStats == [messages_sent |-> 0, messages_failed |-> 0,
              reconnections |-> 0, last_heartbeat |-> 0]

\* No caller is suspended in a websocket.send(): for the send worker, the
\* heartbeat worker, a direct caller of send_heartbeat() and each read loop's
\* pong, the position in `wire` of the frame being sent, 0 when there is none.
NoPending == [send |-> 0, hb |-> 0, app |-> 0, pong |-> [m \in Managers |-> 0]]

\* An inbound frame as json.loads returns it to the read loop, by its kind
\* ("none" before any frame has arrived).
InboundFrame(kind) == [type |-> kind]

\* The runs explored: each bounds the operations that its claims do not turn on,
\* so that the ones they do turn on can be explored in depth.
Scenarios ==
    { [name |-> "lifecycle", configs |-> {SmallBatchConfig}, runs |-> MaxRuns,
       sockets |-> 2, seq |-> 0, inbound |-> 0, heartbeats |-> 0,
       fails |-> 1, stops |-> MaxStops, payloads |-> {Payload}],
      [name |-> "backoff", configs |-> Configs, runs |-> 1, sockets |-> 1,
       seq |-> 0, inbound |-> 0, heartbeats |-> 0, fails |-> MaxFails,
       stops |-> 1, payloads |-> {Payload}],
      [name |-> "traffic", configs |-> {SmallBatchConfig}, runs |-> 1, sockets |-> 1,
       seq |-> MaxSeq, inbound |-> 0, heartbeats |-> 0, fails |-> 0, stops |-> 0,
       payloads |-> {Payload}],
      [name |-> "payload", configs |-> {SmallBatchConfig}, runs |-> 1, sockets |-> 1,
       seq |-> 3, inbound |-> 0, heartbeats |-> 0, fails |-> 0, stops |-> 0,
       payloads |-> Payloads],
      [name |-> "reconnect", configs |-> {SmallBatchConfig}, runs |-> 1,
       sockets |-> MaxSockets, seq |-> 2, inbound |-> 0,
       heartbeats |-> 0, fails |-> 0, stops |-> 0, payloads |-> {Payload}],
      [name |-> "inbound", configs |-> {SmallBatchConfig}, runs |-> 1, sockets |-> 1,
       seq |-> MaxSeq - 2, inbound |-> MaxInbound, heartbeats |-> 0, fails |-> 0,
       stops |-> 0, payloads |-> {Payload}],
      [name |-> "malformed", configs |-> {SmallBatchConfig}, runs |-> 1, sockets |-> 1,
       seq |-> 0, inbound |-> MaxInbound + 1, heartbeats |-> 0, fails |-> 0,
       stops |-> 0, payloads |-> {Payload}],
      [name |-> "heartbeat", configs |-> {SmallBatchConfig}, runs |-> 1,
       sockets |-> 1, seq |-> MaxSeq - 1, inbound |-> 0,
       heartbeats |-> MaxHeartbeats, fails |-> 0, stops |-> 0,
       payloads |-> {Payload}] }

Init ==
    /\ limits \in Scenarios
    /\ cfg \in limits.configs
    /\ config = [k \in {"batch_size", "compress_data"} |->
                    IF k = "batch_size" THEN cfg.batch_size ELSE 1]
    /\ is_running = FALSE
    /\ is_connected = FALSE
    /\ websocket = 0
    /\ reconnect_attempts = 0
    /\ sequence_id = 0
    /\ message_queue = <<>>
    /\ stats = InitStats
    /\ socks = [s \in SocketIds |-> "unused"]
    /\ mgr = [m \in Managers |-> NoMgr]
    /\ run = 0
    /\ send_pc = "none"
    /\ hb_pc = "none"
    /\ ctl_pc = "idle"
    /\ stops = 0
    /\ wire = <<>>
    /\ enqueued = <<>>
    /\ inbound = 0
    /\ last_in = InboundFrame("none")
    /\ dropped = 0
    /\ budget = limits.seq
    /\ pending = NoPending

\* _get_next_sequence_id: the value returned, which is also the new counter.
get_next_sequence_id == sequence_id + 1

\* ----------------------------------------------------- _send_raw_message

\* websocket.send() raises on a closed socket; on an open one it may still raise
\* (a transport error).
SendOutcomes(w) == IF socks[w] = "open" THEN BOOLEAN ELSE {FALSE}

\* The guard at the top of _send_raw_message.
CanSend == is_connected /\ websocket # 0

\* The statistics after a send that returned, and after one that raised.
StatsSent(st) == [st EXCEPT !.messages_sent = @ + 1]
StatsFailed(st) == [st EXCEPT !.messages_failed = @ + 1]

\* ------------------------------------------------------- start() / stop()

\* start(): a no-op when already running; else it sets is_running and creates
\* the three tasks.  Its sleep(2) only delays its return value.
start ==
    /\ IF is_running
       THEN UNCHANGED vars
       ELSE /\ run < limits.runs
            /\ is_running' = TRUE
            /\ run' = run + 1
            /\ mgr' = [mgr EXCEPT ![run + 1] = [NoMgr EXCEPT !.pc = "loop"]]
            /\ send_pc' = "loop"
            /\ hb_pc' = "loop"
            /\ stops' = 0
            /\ UNCHANGED <<limits, pending, cfg, config, is_connected, websocket, reconnect_attempts,
                           sequence_id, message_queue, stats, socks, ctl_pc, wire,
                           enqueued, inbound, last_in, dropped, budget>>

\* Task.cancel(): the task gets CancelledError at the await it is suspended in.
Cancel(pc) == IF pc \in {"loop", "sending"} THEN "cancelled" ELSE pc

\* stop() up to its only await, websocket.close(); with no websocket it returns
\* without suspending.  The connection manager task is neither cancelled nor awaited.
stop_call ==
    /\ ctl_pc = "idle"
    /\ stops < limits.stops
    /\ is_running' = FALSE
    /\ send_pc' = Cancel(send_pc)
    /\ hb_pc' = Cancel(hb_pc)
    /\ IF websocket # 0
       THEN /\ \E how \in {"closed_ok", "closed_err"} :
                 socks' = [socks EXCEPT ![websocket] = IF @ = "open" THEN how ELSE @]
            /\ ctl_pc' = "closing"
            /\ stops' = stops
       ELSE /\ socks' = socks
            /\ ctl_pc' = "idle"
            /\ stops' = stops + 1
    /\ pending' = [pending EXCEPT !.send = 0, !.hb = 0]
    /\ UNCHANGED <<limits, cfg, config, is_connected, websocket, reconnect_attempts,
                   sequence_id, message_queue, stats, mgr, run, wire, enqueued,
                   inbound, last_in, dropped, budget>>

\* stop() after websocket.close() returned.
stop_return ==
    /\ ctl_pc = "closing"
    /\ websocket' = 0
    /\ is_connected' = FALSE
    /\ ctl_pc' = "idle"
    /\ stops' = IF is_running THEN stops ELSE stops + 1
    /\ UNCHANGED <<limits, pending, cfg, config, is_running, reconnect_attempts, sequence_id,
                   message_queue, stats, socks, mgr, run, send_pc, hb_pc, wire,
                   enqueued, inbound, last_in, dropped, budget>>

\* ------------------------------------------- _connection_manager / _connect

\* The id of the next socket websockets.connect() returns.
NextSock == Cardinality({s \in SocketIds : socks[s] # "unused"}) + 1

\* _send_handshake's envelope: sequence_id keeps the dataclass default 0.
HandshakeMessage == DashboardMessage("handshake", [payload |-> "system_info"], 0)

\* The head of `while self.is_running`, reached when the task first runs and
\* each time it wakes from the sleep(1) that ends an iteration: leave the loop,
\* or enter _connect up to `await websockets.connect(...)`.
manager_loop(m) ==
    /\ mgr[m].pc = "loop"
    /\ mgr' = [mgr EXCEPT ![m].pc = IF is_running THEN "connecting" ELSE "done"]
    /\ UNCHANGED <<limits, pending, cfg, config, is_running, is_connected, websocket,
                   reconnect_attempts, sequence_id, message_queue, stats, socks,
                   run, send_pc, hb_pc, ctl_pc, stops, wire, enqueued, inbound,
                   last_in, dropped, budget>>

\* A _connect that restarts the numbering when it replaces an earlier session.
sequence_id_reset_on_connect ==
    IF \E s \in SocketIds : socks[s] # "unused" THEN 0 ELSE sequence_id

\* The sequence counter after _connect: _connect does not touch it.
sequence_id_after_connect == sequence_id

\* websockets.connect() returned: _connect stores the socket over the old handle,
\* sets is_connected, counts the reconnection and calls _send_handshake, whose
\* _send_raw_message either hands the frame to the socket and awaits, or catches
\* the send's exception (is_connected back to False, nothing raised to _connect).
connect_ok(m) ==
    /\ mgr[m].pc = "connecting"
    /\ NextSock <= limits.sockets
    /\ \E ok \in BOOLEAN :
        /\ websocket' = NextSock
        /\ socks' = [socks EXCEPT ![NextSock] = "open"]
        /\ wire' = Append(wire, Frame(NextSock, HandshakeMessage, ok))
        /\ is_connected' = ok
        /\ stats' = LET counted == [stats EXCEPT !.reconnections = @ + 1]
                    IN  IF ok THEN counted ELSE StatsFailed(counted)
        /\ mgr' = [mgr EXCEPT ![m] = [@ EXCEPT !.pc = IF ok THEN "handshaking" ELSE "loop",
                                               !.sock = IF ok THEN NextSock ELSE 0,
                                               !.fails = 0]]
    /\ sequence_id' = sequence_id_after_connect
    /\ UNCHANGED <<limits, pending, cfg, config, is_running, reconnect_attempts,
                   message_queue, run, send_pc, hb_pc, ctl_pc, stops, enqueued,
                   inbound, last_in, dropped, budget>>

\* The handshake's send returned: statistics, then back in the manager
\* `if self.is_connected:` resets the attempt counter and enters
\* _listen_for_messages on self.websocket; otherwise the iteration ends.
handshake_return(m) ==
    /\ mgr[m].pc = "handshaking"
    /\ stats' = StatsSent(stats)
    /\ IF is_connected
       THEN /\ reconnect_attempts' = 0
            /\ mgr' = [mgr EXCEPT ![m] = [@ EXCEPT !.pc = "listening", !.sock = websocket]]
       ELSE /\ reconnect_attempts' = reconnect_attempts
            /\ mgr' = [mgr EXCEPT ![m] = [@ EXCEPT !.pc = "loop", !.sock = 0]]
    /\ UNCHANGED <<limits, pending, cfg, config, is_running, is_connected, websocket, sequence_id,
                   message_queue, socks, run, send_pc, hb_pc, ctl_pc, stops, wire,
                   enqueued, inbound, last_in, dropped, budget>>

\* The history with the handshake written on socket s marked as having raised.
Raised(history, i) == [history EXCEPT ![i].ok = FALSE]

\* The write history with the handshake sent on socket s marked as raised.
HandshakeRaised(history, s) ==
    [i \in 1..Len(history) |->
        IF history[i].sock = s /\ history[i].msg.message_type = "handshake"
        THEN [history[i] EXCEPT !.ok = FALSE]
        ELSE history[i]]

\* The handshake's send raises after it had suspended (the connection is lost
\* while the frame drains): _send_raw_message counts the failure and clears
\* is_connected, _send_handshake and _connect return normally, and the manager
\* skips the read loop.
handshake_raise(m) ==
    /\ mgr[m].pc = "handshaking"
    /\ wire' = HandshakeRaised(wire, mgr[m].sock)
    /\ stats' = StatsFailed(stats)
    /\ is_connected' = FALSE
    /\ mgr' = [mgr EXCEPT ![m] = [@ EXCEPT !.pc = "loop", !.sock = 0]]
    /\ UNCHANGED <<limits, pending, cfg, config, is_running, websocket, reconnect_attempts,
                   sequence_id, message_queue, socks, run, send_pc, hb_pc, ctl_pc,
                   stops, enqueued, inbound, last_in, dropped, budget>>

\* A delay that doubles once too often: 2 ** attempt.
backoff_delay_doubled(attempt) ==
    Min(cfg.reconnect_delay * (2 ^ attempt), cfg.max_reconnect_delay)

\* _handle_reconnect's delay for the attempt counter already incremented.
backoff_delay(attempt) ==
    Min(cfg.reconnect_delay * (2 ^ (attempt - 1)), cfg.max_reconnect_delay)

\* A budget that is spent one failure early.
may_retry_one_less(attempts) == attempts + 1 < cfg.max_reconnect_attempts

\* A budget that allows one failure too many.
may_retry_one_more(attempts) == attempts <= cfg.max_reconnect_attempts

\* _handle_reconnect's test for the exponential branch.
may_retry(attempts) == attempts < cfg.max_reconnect_attempts

\* websockets.connect() raised: _connect clears is_connected and re-raises, the
\* manager's handler clears it again and, if still running, enters
\* _handle_reconnect up to its sleep.
connect_fail(m) ==
    /\ mgr[m].pc = "connecting"
    /\ mgr[m].fails < limits.fails
    /\ is_connected' = FALSE
    /\ IF ~is_running
       THEN /\ reconnect_attempts' = reconnect_attempts
            /\ mgr' = [mgr EXCEPT ![m] = [@ EXCEPT !.pc = "loop",
                                                   !.fails = @ + 1]]
       ELSE IF may_retry(reconnect_attempts)
       THEN /\ reconnect_attempts' = reconnect_attempts + 1
            /\ mgr' = [mgr EXCEPT ![m] = [@ EXCEPT !.pc = "backoff",
                                                   !.delay = backoff_delay(reconnect_attempts + 1),
                                                   !.fails = @ + 1]]
       ELSE /\ reconnect_attempts' = reconnect_attempts
            /\ mgr' = [mgr EXCEPT ![m] = [@ EXCEPT !.pc = "slow_wait",
                                                   !.delay = cfg.max_reconnect_delay,
                                                   !.fails = @ + 1]]
    /\ UNCHANGED <<limits, pending, cfg, config, is_running, websocket, sequence_id, message_queue,
                   stats, socks, run, send_pc, hb_pc, ctl_pc, stops, wire, enqueued,
                   inbound, last_in, dropped, budget>>

\* The exponential branch's sleep(delay) is over; the iteration's sleep(1) follows.
backoff_wake(m) ==
    /\ mgr[m].pc = "backoff"
    /\ mgr' = [mgr EXCEPT ![m] = [@ EXCEPT !.pc = "loop", !.delay = 0]]
    /\ UNCHANGED <<limits, pending, cfg, config, is_running, is_connected, websocket,
                   reconnect_attempts, sequence_id, message_queue, stats, socks,
                   run, send_pc, hb_pc, ctl_pc, stops, wire, enqueued, inbound,
                   last_in, dropped, budget>>

\* A manager that gives up once the reconnect budget is spent.
slow_wake_gives_up(m) ==
    /\ mgr[m].pc = "slow_wait"
    /\ mgr' = [mgr EXCEPT ![m] = [@ EXCEPT !.pc = "done", !.delay = 0]]
    /\ UNCHANGED <<limits, pending, cfg, config, is_running, is_connected, websocket,
                   reconnect_attempts, sequence_id, message_queue, stats, socks,
                   run, send_pc, hb_pc, ctl_pc, stops, wire, enqueued, inbound,
                   last_in, dropped, budget>>

\* The exhausted branch's sleep(max_reconnect_delay) is over: the counter is reset.
slow_wake(m) ==
    /\ mgr[m].pc = "slow_wait"
    /\ reconnect_attempts' = 0
    /\ mgr' = [mgr EXCEPT ![m] = [@ EXCEPT !.pc = "loop", !.delay = 0]]
    /\ UNCHANGED <<limits, pending, cfg, config, is_running, is_connected, websocket, sequence_id,
                   message_queue, stats, socks, run, send_pc, hb_pc, ctl_pc, stops,
                   wire, enqueued, inbound, last_in, dropped, budget>>

\* ------------------------------------------------------- publisher calls

\* A publisher that drops the envelope while the client is not connected.
enqueue_when_connected(t, d) ==
    /\ budget > 0
    /\ sequence_id' = get_next_sequence_id
    /\ budget' = budget - 1
    /\ message_queue' = IF is_connected
                        THEN Append(message_queue, DashboardMessage(t, d, get_next_sequence_id))
                        ELSE message_queue
    /\ enqueued' = Append(enqueued, DashboardMessage(t, d, get_next_sequence_id))

\* The body shared by the four queued publishers: a DashboardMessage with the
\* next sequence id, put on the unbounded queue (put() never suspends).
enqueue(t, d) ==
    /\ budget > 0
    /\ sequence_id' = get_next_sequence_id
    /\ budget' = budget - 1
    /\ message_queue' = Append(message_queue, DashboardMessage(t, d, get_next_sequence_id))
    /\ enqueued' = Append(enqueued, DashboardMessage(t, d, get_next_sequence_id))

\* A status report that always says running and connected.
status_data_always_up ==
    [status |-> "running", connection |-> "connected",
     stats |-> "self.stats", config |-> "self.config"]

\* send_system_status's status_data; its 'stats' and 'config' entries are the
\* live dicts themselves, read when the envelope is serialized.
status_data ==
    [status |-> IF is_running THEN "running" ELSE "stopped",
     connection |-> IF is_connected THEN "connected" ELSE "disconnected",
     stats |-> "self.stats",
     config |-> "self.config"]

\* dataclasses.asdict(message) as _send_raw_message and _send_batch call it: a
\* deep copy taken at that moment, so the dicts a system_status envelope refers
\* to are copied with the values they hold then.
asdict_envelope(message) ==
    IF message.message_type = "system_status"
    THEN [message EXCEPT !.data = [@ EXCEPT !.stats = stats, !.config = config]]
    ELSE message

\* The same for any message: the members of a batch are copied with it.
asdict(message) ==
    IF message.message_type = "batch"
    THEN [message EXCEPT !.data.messages =
              [i \in 1..Len(@) |-> asdict_envelope(@[i])]]
    ELSE asdict_envelope(message)

\* asdict(message) raises: copy.deepcopy, which it applies to every value of
\* the payload that is not a dict or a list, raises TypeError for the lock.
asdict_raises(message) == message.data = LockPayload

\* json.dumps(asdict(message), default=str) raises: asdict does, or the
\* payload of the envelope or of a member of the batch has a key json.dumps
\* rejects (default= is applied to values only).
json_dumps_raises(message) ==
    \/ asdict_raises(message)
    \/ message.data = TupleKeyPayload
    \/ /\ message.message_type = "batch"
       /\ \E i \in 1..Len(message.data.messages) :
             message.data.messages[i].data = TupleKeyPayload

send_portfolio_data ==
    /\ \E d \in limits.payloads : enqueue("portfolio_update", d)
    /\ UNCHANGED <<limits, pending, cfg, config, is_running, is_connected, websocket,
                   reconnect_attempts, stats, socks, mgr, run, send_pc, hb_pc,
                   ctl_pc, stops, wire, inbound, last_in, dropped>>

send_trade_signal ==
    /\ \E d \in limits.payloads : enqueue("trade_signal", d)
    /\ UNCHANGED <<limits, pending, cfg, config, is_running, is_connected, websocket,
                   reconnect_attempts, stats, socks, mgr, run, send_pc, hb_pc,
                   ctl_pc, stops, wire, inbound, last_in, dropped>>

send_risk_alert ==
    /\ \E d \in limits.payloads : enqueue("risk_alert", d)
    /\ UNCHANGED <<limits, pending, cfg, config, is_running, is_connected, websocket,
                   reconnect_attempts, stats, socks, mgr, run, send_pc, hb_pc,
                   ctl_pc, stops, wire, inbound, last_in, dropped>>

send_system_status ==
    /\ enqueue("system_status", status_data)
    /\ UNCHANGED <<limits, pending, cfg, config, is_running, is_connected, websocket,
                   reconnect_attempts, stats, socks, mgr, run, send_pc, hb_pc,
                   ctl_pc, stops, wire, inbound, last_in, dropped>>

\* ------------------------------------------------ _send_worker / _send_batch

\* A get_nowait loop that runs once too often.
batch_count_one_more(q) == Min(Len(q), cfg.batch_size + 1)

\* The get_nowait loop: how many envelopes one cycle takes off the queue.
batch_count(q) == Min(Len(q), cfg.batch_size)

\* The envelopes the cycle takes and the queue it leaves.
take_batch(q) == SubSeq(q, 1, batch_count(q))
leave_queue(q) == SubSeq(q, batch_count(q) + 1, Len(q))

\* Whether the cycle calls _send_batch, which takes a fresh sequence id.
is_batch(messages) == Len(messages) # 1

\* The envelope the cycle hands to _send_raw_message.
outgoing(messages) ==
    IF is_batch(messages)
    THEN DashboardMessage("batch", [messages |-> messages], get_next_sequence_id)
    ELSE messages[1]

\* The queue after a cycle whose send raised: the batch is not put back.
queue_after_failed_send(rest, messages) == rest

\* is_connected after a send that raised.
connected_after_failed_send == FALSE

\* A send loop that takes envelopes off the queue whether connected or not.
may_dequeue_when_queued == message_queue # <<>>

\* `if self.is_connected and not self.message_queue.empty()`.
may_dequeue == is_connected /\ message_queue # <<>>

\* _send_batch raises before it takes a sequence id: the list comprehension
\* `[asdict(msg) for msg in messages]` is evaluated before
\* `sequence_id=self._get_next_sequence_id()`, outside the try of
\* _send_raw_message.
batch_raises(messages) ==
    /\ is_batch(messages)
    /\ \E i \in 1..Len(messages) : asdict_raises(messages[i])

\* One iteration of `while self.is_running`, from the wake-up out of the
\* previous sleep to the next await: the send of a batch, or the next sleep.
\* When _send_batch raises, `except Exception` in the worker logs and sleeps
\* (1 s instead of send_interval): the envelopes taken are gone and nothing
\* else has changed. When json.dumps raises inside _send_raw_message no
\* websocket.send() call is made; the failure is counted and is_connected is
\* cleared as for a send that raised.
send_worker ==
    /\ send_pc = "loop"
    /\ IF ~is_running
       THEN /\ send_pc' = "done"
            /\ UNCHANGED <<is_connected, sequence_id, message_queue, stats, wire, budget>>
       ELSE IF ~may_dequeue
       THEN UNCHANGED <<is_connected, sequence_id, message_queue, stats, wire,
                        budget, send_pc>>
       ELSE LET messages == take_batch(message_queue)
                rest == leave_queue(message_queue)
            IN  IF batch_raises(messages)
                THEN /\ message_queue' = rest
                     /\ UNCHANGED <<is_connected, sequence_id, stats, wire, budget,
                                    send_pc>>
                ELSE
                /\ is_batch(messages) => budget > 0
                /\ sequence_id' = IF is_batch(messages) THEN get_next_sequence_id
                                                        ELSE sequence_id
                /\ budget' = IF is_batch(messages) THEN budget - 1 ELSE budget
                /\ IF ~CanSend
                   THEN /\ message_queue' = rest
                        /\ UNCHANGED <<is_connected, stats, wire, send_pc>>
                   ELSE IF json_dumps_raises(outgoing(messages))
                   THEN /\ message_queue' = queue_after_failed_send(rest, messages)
                        /\ stats' = StatsFailed(stats)
                        /\ is_connected' = connected_after_failed_send
                        /\ UNCHANGED <<wire, send_pc>>
                   ELSE \E ok \in SendOutcomes(websocket) :
                        /\ wire' = Append(wire, Frame(websocket, outgoing(messages), ok))
                        /\ IF ok
                           THEN /\ message_queue' = rest
                                /\ send_pc' = "sending"
                                /\ UNCHANGED <<is_connected, stats>>
                           ELSE /\ message_queue' = queue_after_failed_send(rest, messages)
                                /\ stats' = StatsFailed(stats)
                                /\ is_connected' = connected_after_failed_send
                                /\ send_pc' = "loop"
    /\ pending' = [pending EXCEPT !.send = IF send_pc' = "sending" THEN Len(wire') ELSE 0]
    /\ UNCHANGED <<limits, cfg, config, is_running, websocket, reconnect_attempts, socks,
                   mgr, run, hb_pc, ctl_pc, stops, enqueued, inbound, last_in, dropped>>

\* The send worker's websocket.send() returned: statistics, then sleep(send_interval).
send_return ==
    /\ send_pc = "sending"
    /\ stats' = StatsSent(stats)
    /\ send_pc' = "loop"
    /\ pending' = [pending EXCEPT !.send = 0]
    /\ UNCHANGED <<limits, cfg, config, is_running, is_connected, websocket,
                   reconnect_attempts, sequence_id, message_queue, socks, mgr, run,
                   hb_pc, ctl_pc, stops, wire, enqueued, inbound, last_in, dropped, budget>>

\* The send worker's websocket.send() raises after it had suspended (the
\* connection is lost while the frame drains): the except branch of
\* _send_raw_message counts the failure and clears is_connected; the envelopes
\* of the frame are not put back; then sleep(send_interval).
send_raise ==
    /\ send_pc = "sending"
    /\ wire' = Raised(wire, pending.send)
    /\ stats' = StatsFailed(stats)
    /\ is_connected' = connected_after_failed_send
    /\ send_pc' = "loop"
    /\ pending' = [pending EXCEPT !.send = 0]
    /\ UNCHANGED <<limits, cfg, config, is_running, websocket, reconnect_attempts,
                   sequence_id, message_queue, socks, mgr, run, hb_pc, ctl_pc, stops,
                   enqueued, inbound, last_in, dropped, budget>>

\* ------------------------------------------ _heartbeat_worker / send_heartbeat

\* send_heartbeat's envelope: it takes a sequence id and reports the queue depth.
HeartbeatMessage ==
    DashboardMessage("heartbeat", [queue_size |-> Len(message_queue)],
                     get_next_sequence_id)

\* stats['last_heartbeat'] = datetime.now(): a value later than every earlier one.
Stamp(st) == [st EXCEPT !.last_heartbeat = @ + 1]

\* One iteration of the heartbeat loop up to its next await.  When the send
\* raises, _send_raw_message returns False and the worker still stamps
\* last_heartbeat before sleeping.
heartbeat_worker ==
    /\ hb_pc = "loop"
    /\ IF ~is_running
       THEN /\ hb_pc' = "done"
            /\ UNCHANGED <<is_connected, sequence_id, stats, wire, budget>>
       ELSE IF ~is_connected
       THEN UNCHANGED <<is_connected, sequence_id, stats, wire, budget, hb_pc>>
       ELSE /\ budget > 0
            /\ stats.last_heartbeat < limits.heartbeats
            /\ sequence_id' = get_next_sequence_id
            /\ budget' = budget - 1
            /\ IF ~CanSend
               THEN /\ stats' = Stamp(stats)
                    /\ UNCHANGED <<is_connected, wire, hb_pc>>
               ELSE \E ok \in SendOutcomes(websocket) :
                    /\ wire' = Append(wire, Frame(websocket, HeartbeatMessage, ok))
                    /\ IF ok
                       THEN /\ hb_pc' = "sending"
                            /\ UNCHANGED <<is_connected, stats>>
                       ELSE /\ stats' = Stamp(StatsFailed(stats))
                            /\ is_connected' = FALSE
                            /\ hb_pc' = "loop"
    /\ pending' = [pending EXCEPT !.hb = IF hb_pc' = "sending" THEN Len(wire') ELSE 0]
    /\ UNCHANGED <<limits, cfg, config, is_running, websocket, reconnect_attempts,
                   message_queue, socks, mgr, run, send_pc, ctl_pc, stops, enqueued,
                   inbound, last_in, dropped>>

\* The heartbeat's websocket.send() returned: statistics, the stamp, sleep(30).
heartbeat_return ==
    /\ hb_pc = "sending"
    /\ stats' = Stamp(StatsSent(stats))
    /\ hb_pc' = "loop"
    /\ pending' = [pending EXCEPT !.hb = 0]
    /\ UNCHANGED <<limits, cfg, config, is_running, is_connected, websocket,
                   reconnect_attempts, sequence_id, message_queue, socks, mgr, run,
                   send_pc, ctl_pc, stops, wire, enqueued, inbound, last_in, dropped, budget>>

\* The heartbeat's websocket.send() raises after it had suspended:
\* _send_raw_message counts the failure and clears is_connected, send_heartbeat
\* returns normally and the worker stamps last_heartbeat all the same.
heartbeat_raise ==
    /\ hb_pc = "sending"
    /\ wire' = Raised(wire, pending.hb)
    /\ stats' = Stamp(StatsFailed(stats))
    /\ is_connected' = FALSE
    /\ hb_pc' = "loop"
    /\ pending' = [pending EXCEPT !.hb = 0]
    /\ UNCHANGED <<limits, cfg, config, is_running, websocket, reconnect_attempts,
                   sequence_id, message_queue, socks, mgr, run, send_pc, ctl_pc, stops,
                   enqueued, inbound, last_in, dropped, budget>>

\* The application calls the public send_heartbeat() itself, started or not:
\* it takes a sequence id and, if connected, writes the heartbeat; the
\* heartbeat task is not involved and last_heartbeat is not stamped.
send_heartbeat ==
    /\ limits.heartbeats > 0
    /\ budget > 0
    /\ pending.app = 0
    /\ sequence_id' = get_next_sequence_id
    /\ budget' = budget - 1
    /\ IF ~CanSend
       THEN UNCHANGED <<is_connected, stats, wire, pending>>
       ELSE \E ok \in SendOutcomes(websocket) :
            /\ wire' = Append(wire, Frame(websocket, HeartbeatMessage, ok))
            /\ IF ok
               THEN /\ pending' = [pending EXCEPT !.app = Len(wire')]
                    /\ UNCHANGED <<is_connected, stats>>
               ELSE /\ stats' = StatsFailed(stats)
                    /\ is_connected' = FALSE
                    /\ pending' = pending
    /\ UNCHANGED <<limits, cfg, config, is_running, websocket, reconnect_attempts,
                   message_queue, socks, mgr, run, send_pc, hb_pc, ctl_pc, stops,
                   enqueued, inbound, last_in, dropped>>

\* The direct caller's websocket.send() returned.
send_heartbeat_return ==
    /\ pending.app # 0
    /\ stats' = StatsSent(stats)
    /\ pending' = [pending EXCEPT !.app = 0]
    /\ UNCHANGED <<limits, cfg, config, is_running, is_connected, websocket,
                   reconnect_attempts, sequence_id, message_queue, socks, mgr, run,
                   send_pc, hb_pc, ctl_pc, stops, wire, enqueued, inbound, last_in,
                   dropped, budget>>

\* The direct caller's websocket.send() raises after it had suspended.
send_heartbeat_raise ==
    /\ pending.app # 0
    /\ wire' = Raised(wire, pending.app)
    /\ stats' = StatsFailed(stats)
    /\ is_connected' = FALSE
    /\ pending' = [pending EXCEPT !.app = 0]
    /\ UNCHANGED <<limits, cfg, config, is_running, websocket, reconnect_attempts,
                   sequence_id, message_queue, socks, mgr, run, send_pc, hb_pc, ctl_pc,
                   stops, enqueued, inbound, last_in, dropped, budget>>

\* ------------------------- _listen_for_messages / _handle_incoming_message

\* `async for message in self.websocket` has a frame to deliver.
Receiving(m) ==
    /\ mgr[m].pc = "listening"
    /\ socks[mgr[m].sock] = "open"
    /\ inbound < limits.inbound

PongMessage == DashboardMessage("pong", [payload |-> "ok"], 0)

\* A _send_pong that puts the pong on the outbound queue instead of writing it.
recv_ping_queued(m) ==
    /\ Receiving(m)
    /\ inbound' = inbound + 1
    /\ last_in' = InboundFrame("ping")
    /\ dropped' = dropped
    /\ message_queue' = Append(message_queue, PongMessage)
    /\ UNCHANGED <<limits, pending, cfg, config, is_running, is_connected, websocket,
                   reconnect_attempts, sequence_id, stats, socks, mgr, run, send_pc,
                   hb_pc, ctl_pc, stops, wire, enqueued, budget>>

\* {"type": "ping"}: _send_pong calls _send_raw_message directly.
recv_ping(m) ==
    /\ Receiving(m)
    /\ inbound' = inbound + 1
    /\ last_in' = InboundFrame("ping")
    /\ dropped' = dropped
    /\ IF ~CanSend
       THEN UNCHANGED <<is_connected, stats, wire, mgr>>
       ELSE \E ok \in SendOutcomes(websocket) :
            /\ wire' = Append(wire, Frame(websocket, PongMessage, ok))
            /\ IF ok
               THEN /\ mgr' = [mgr EXCEPT ![m].pc = "ponging"]
                    /\ UNCHANGED <<is_connected, stats>>
               ELSE /\ stats' = StatsFailed(stats)
                    /\ is_connected' = FALSE
                    /\ mgr' = mgr
    /\ pending' = [pending EXCEPT !.pong[m] = IF mgr'[m].pc = "ponging"
                                              THEN Len(wire') ELSE 0]
    /\ UNCHANGED <<limits, cfg, config, is_running, websocket, reconnect_attempts,
                   sequence_id, message_queue, socks, run, send_pc, hb_pc, ctl_pc,
                   stops, enqueued, budget>>

\* The pong's websocket.send() returned; the read loop goes on.
pong_return(m) ==
    /\ mgr[m].pc = "ponging"
    /\ stats' = StatsSent(stats)
    /\ mgr' = [mgr EXCEPT ![m].pc = "listening"]
    /\ pending' = [pending EXCEPT !.pong[m] = 0]
    /\ UNCHANGED <<limits, cfg, config, is_running, is_connected, websocket,
                   reconnect_attempts, sequence_id, message_queue, socks, run,
                   send_pc, hb_pc, ctl_pc, stops, wire, enqueued, inbound, last_in, dropped,
                   budget>>

\* The pong's websocket.send() raises after it had suspended: _send_raw_message
\* counts the failure and clears is_connected, and the read loop goes on.
pong_raise(m) ==
    /\ mgr[m].pc = "ponging"
    /\ wire' = Raised(wire, pending.pong[m])
    /\ stats' = StatsFailed(stats)
    /\ is_connected' = FALSE
    /\ mgr' = [mgr EXCEPT ![m].pc = "listening"]
    /\ pending' = [pending EXCEPT !.pong[m] = 0]
    /\ UNCHANGED <<limits, cfg, config, is_running, websocket, reconnect_attempts,
                   sequence_id, message_queue, socks, run, send_pc, hb_pc, ctl_pc,
                   stops, enqueued, inbound, last_in, dropped, budget>>

\* The 'config' objects a config_update may carry: any of a key the client
\* has, 'batch_size', and one it does not have, each with one of two values.
ConfigUpdates == UNION {[K -> {3, 4}] : K \in SUBSET {"batch_size", "bogus"}}

\* {"type": "config_update", "config": update} as the read loop decodes it.
ConfigUpdateFrame(update) == [type |-> "config_update", config |-> update]

\* An update handler that stores every key of the update, known or not.
handle_config_update_any_key(update) ==
    [k \in DOMAIN config \cup DOMAIN update |->
        IF k \in DOMAIN update THEN update[k] ELSE config[k]]

\* _handle_config_update: keys already in self.config take the update's value.
handle_config_update(update) ==
    [k \in DOMAIN config |-> IF k \in DOMAIN update THEN update[k] ELSE config[k]]

recv_config_update(m) ==
    /\ Receiving(m)
    /\ inbound' = inbound + 1
    /\ dropped' = dropped
    /\ \E update \in ConfigUpdates :
          /\ last_in' = ConfigUpdateFrame(update)
          /\ config' = handle_config_update(update)
    /\ UNCHANGED <<limits, pending, cfg, is_running, is_connected, websocket, reconnect_attempts,
                   sequence_id, message_queue, stats, socks, mgr, run, send_pc,
                   hb_pc, ctl_pc, stops, wire, enqueued, budget>>

\* {"type": "command", "command": {"type": "get_status"}}: send_system_status.
recv_get_status(m) ==
    /\ Receiving(m)
    /\ inbound' = inbound + 1
    /\ last_in' = InboundFrame("get_status")
    /\ dropped' = dropped
    /\ enqueue("system_status", status_data)
    /\ UNCHANGED <<limits, pending, cfg, config, is_running, is_connected, websocket,
                   reconnect_attempts, stats, socks, mgr, run, send_pc, hb_pc,
                   ctl_pc, stops, wire>>

\* Frames whose dispatch raises: text that is not JSON (JSONDecodeError), JSON
\* that is not an object (data.get: AttributeError), a config_update whose
\* 'config' is not an object (config.items) and a command whose 'command' is
\* not an object (command.get).
Malformed == {"bad_json", "not_object", "bad_config", "bad_command"}

\* Frames that are only logged: a restart command, an unknown type, and the
\* frames whose exception the read loop's inner try catches.
Ignored == {"restart", "unknown"} \cup Malformed

\* A read loop without the inner try: the exception of a dispatch ends it.
recv_malformed_fatal(m) ==
    /\ Receiving(m)
    /\ inbound' = inbound + 1
    /\ \E kind \in Malformed : last_in' = InboundFrame(kind)
    /\ dropped' = dropped + 1
    /\ is_connected' = FALSE
    /\ mgr' = [mgr EXCEPT ![m] = [@ EXCEPT !.pc = "loop", !.sock = 0]]
    /\ UNCHANGED <<limits, pending, cfg, config, is_running, websocket, reconnect_attempts,
                   sequence_id, message_queue, stats, socks, run, send_pc, hb_pc,
                   ctl_pc, stops, wire, enqueued, budget>>

recv_ignored(m) ==
    /\ Receiving(m)
    /\ inbound' = inbound + 1
    /\ \E kind \in Ignored :
          /\ last_in' = InboundFrame(kind)
          /\ dropped' = IF kind \in Malformed THEN dropped + 1 ELSE dropped
    /\ UNCHANGED <<limits, pending, cfg, config, is_running, is_connected, websocket,
                   reconnect_attempts, sequence_id, message_queue, stats, socks, mgr,
                   run, send_pc, hb_pc, ctl_pc, stops, wire, enqueued, budget>>

\* The iteration over the socket ends.  A normal closure ends `async for`
\* silently and leaves is_connected alone; ConnectionClosed(Error) or any other
\* exception clears it.  Either way _listen_for_messages returns normally and
\* the manager goes to its sleep(1) without _handle_reconnect.
read_end(m) ==
    /\ mgr[m].pc = "listening"
    /\ socks[mgr[m].sock] # "open"
    /\ is_connected' = IF socks[mgr[m].sock] = "closed_ok" THEN is_connected ELSE FALSE
    /\ mgr' = [mgr EXCEPT ![m] = [@ EXCEPT !.pc = "loop", !.sock = 0]]
    /\ UNCHANGED <<limits, pending, cfg, config, is_running, websocket, reconnect_attempts,
                   sequence_id, message_queue, stats, socks, run, send_pc, hb_pc,
                   ctl_pc, stops, wire, enqueued, inbound, last_in, dropped, budget>>

\* ------------------------------------------------------------ environment

\* The dashboard or the network closes a socket, cleanly or not.
remote_close(s) ==
    /\ socks[s] = "open"
    /\ \E how \in {"closed_ok", "closed_err"} : socks' = [socks EXCEPT ![s] = how]
    /\ UNCHANGED <<limits, pending, cfg, config, is_running, is_connected, websocket,
                   reconnect_attempts, sequence_id, message_queue, stats, mgr, run,
                   send_pc, hb_pc, ctl_pc, stops, wire, enqueued, inbound, last_in, dropped,
                   budget>>

\* ---------------------------------------------------------- specification

Next ==
    \/ start
    \/ stop_call
    \/ stop_return
    \/ send_portfolio_data
    \/ send_trade_signal
    \/ send_risk_alert
    \/ send_system_status
    \/ send_worker
    \/ send_return
    \/ send_raise
    \/ heartbeat_worker
    \/ heartbeat_return
    \/ heartbeat_raise
    \/ send_heartbeat
    \/ send_heartbeat_return
    \/ send_heartbeat_raise
    \/ \E m \in Managers :
        \/ manager_loop(m)
        \/ connect_ok(m)
        \/ connect_fail(m)
        \/ handshake_return(m)
        \/ handshake_raise(m)
        \/ backoff_wake(m)
        \/ slow_wake(m)
        \/ recv_ping(m)
        \/ pong_return(m)
        \/ pong_raise(m)
        \/ recv_config_update(m)
        \/ recv_get_status(m)
        \/ recv_ignored(m)
        \/ read_end(m)
    \/ \E s \in SocketIds : remote_close(s)

Spec == Init /\ [][Next]_vars

\* ------------------------------------------------- reading the histories

\* A frame the send loop wrote: a queued envelope alone, or a batch envelope.
FromSendLoop(f) == f.msg.message_type \in QueuedTypes \cup {"batch"}

\* The queued envelopes a frame carries.
Members(f) ==
    IF f.msg.message_type = "batch" THEN f.msg.data.messages
    ELSE IF f.msg.message_type \in QueuedTypes THEN <<f.msg>>
    ELSE <<>>

\* The envelopes the send loop has taken off the queue, in the order taken.
RECURSIVE TakenUpTo(_)
TakenUpTo(n) == IF n = 0 THEN <<>> ELSE TakenUpTo(n - 1) \o Members(wire[n])
Taken == TakenUpTo(Len(wire))

SeqIds(q) == [i \in 1..Len(q) |-> q[i].sequence_id]
NoRepeat(q) == \A i, j \in 1..Len(q) : i # j => q[i] # q[j]
LastFrame == wire[Len(wire)]

\* ------------------------------------------------- the manager on its own

\* A client whose connects keep failing, with nothing published.
InitRetry == Init /\ limits.name = "backoff"

\* The steps of Next that a client takes when nothing is published and nothing
\* is received: start() and stop(), the two workers (which find nothing to
\* send), and every step of the connection manager, the handshake whose send
\* raises included.
NextRetry ==
    \/ start
    \/ stop_call
    \/ stop_return
    \/ send_worker
    \/ heartbeat_worker
    \/ \E m \in Managers :
        \/ manager_loop(m)
        \/ connect_ok(m)
        \/ connect_fail(m)
        \/ handshake_return(m)
        \/ handshake_raise(m)
        \/ backoff_wake(m)
        \/ slow_wake(m)
        \/ read_end(m)
    \/ \E s \in SocketIds : remote_close(s)

\* The event loop runs a task whose sleep is over: asyncio.sleep() returns after
\* its delay and a ready task is scheduled.  The network owes nothing: a pending
\* connect may take for ever, and so may a remote close.
ManagerFairness ==
    \A m \in Managers :
        /\ WF_vars(manager_loop(m))
        /\ WF_vars(backoff_wake(m))
        /\ WF_vars(slow_wake(m))

SpecRetry == InitRetry /\ [][NextRetry]_vars /\ ManagerFairness

\* ------------------------------------------------- a session with a backlog

\* The bounds of a run that starts from a connected session with a backlog.
BacklogLimits ==
    [name |-> "backlog", configs |-> Configs \cup {SmallBatchConfig}, runs |-> 1, sockets |-> 1,
     seq |-> 2 * MaxBacklog, inbound |-> 0, heartbeats |-> 0, fails |-> 0,
     stops |-> 0, payloads |-> Payloads]

\* The n envelopes send_portfolio_data has queued, with sequence ids 1..n;
\* the p-th holds payload d, the others one that can be serialized.
Backlog(n, p, d) ==
    [i \in 1..n |-> DashboardMessage("portfolio_update",
                                      IF i = p THEN d ELSE Payload, i)]

\* start() has run, the manager has connected and sent its handshake and is in
\* the read loop, and n envelopes were queued before the send worker's first
\* wake-up.
InitBacklog ==
    /\ limits = BacklogLimits
    /\ cfg \in limits.configs
    /\ config = [k \in {"batch_size", "compress_data"} |->
                    IF k = "batch_size" THEN cfg.batch_size ELSE 1]
    /\ is_running = TRUE
    /\ is_connected = TRUE
    /\ websocket = 1
    /\ reconnect_attempts = 0
    /\ \E n \in 0..MaxBacklog, p \in 0..MaxBacklog, d \in limits.payloads :
          /\ p <= n
          /\ sequence_id = n
          /\ message_queue = Backlog(n, p, d)
          /\ enqueued = Backlog(n, p, d)
          /\ budget = limits.seq - n
    /\ stats = [InitStats EXCEPT !.messages_sent = 1, !.reconnections = 1]
    /\ socks = [s \in SocketIds |-> IF s = 1 THEN "open" ELSE "unused"]
    /\ mgr = [m \in Managers |->
                IF m = 1 THEN [pc |-> "listening", sock |-> 1, delay |-> 0, fails |-> 0]
                ELSE NoMgr]
    /\ run = 1
    /\ send_pc = "loop"
    /\ hb_pc = "loop"
    /\ ctl_pc = "idle"
    /\ stops = 0
    /\ wire = <<Frame(1, HandshakeMessage, TRUE)>>
    /\ inbound = 0
    /\ last_in = InboundFrame("none")
    /\ dropped = 0
    /\ pending = NoPending

\* Only the send worker runs.
NextBacklog == send_worker \/ send_return \/ send_raise

SpecBacklog == InitBacklog /\ [][NextBacklog]_vars

\* ---------------------------------------------------------------- claims

\* The envelopes this step takes off the head of the queue.
Dequeued == SubSeq(message_queue, 1, Len(message_queue) - Len(message_queue'))

\* This step is a send cycle that took envelopes off the queue.
DequeueStep == Len(message_queue') < Len(message_queue)

\* What is queued is the tail of what was enqueued: the envelopes taken so far
\* are the ones enqueued first.
QueueIsTailOfEnqueued ==
    /\ Len(message_queue) <= Len(enqueued)
    /\ message_queue = SubSeq(enqueued, Len(enqueued) - Len(message_queue) + 1,
                              Len(enqueued))

\* C1: the envelopes the send loop takes out of the queue appear in exactly
\* their enqueue order, within a batch and across batches (every cycle takes
\* from the head of the queue, and what is still queued is the tail of what
\* was enqueued; the envelopes carried by the frames written are in enqueue
\* order too), and no send cycle takes more than batch_size envelopes.
C1_FifoWithinBatchSize ==
    /\ [](/\ QueueIsTailOfEnqueued
          /\ \A i, j \in 1..Len(Taken) :
                i < j => Taken[i].sequence_id < Taken[j].sequence_id
          /\ \A i \in 1..Len(wire) : Len(Members(wire[i])) <= cfg.batch_size)
    /\ [][DequeueStep =>
            /\ Len(Dequeued) <= cfg.batch_size
            /\ message_queue' = SubSeq(message_queue, Len(Dequeued) + 1,
                                       Len(message_queue))]_vars

\* A full batch has been sent and a later cycle sent what had queued up behind it.
C1_Witness ==
    /\ Len(wire) >= 3
    /\ Len(Members(wire[2])) = cfg.batch_size
    /\ FromSendLoop(wire[3])
    /\ Len(enqueued) > cfg.batch_size

\* C2: within one connection session the sequence_id of the successive frames
\* the send loop writes (standalone envelopes and batch envelopes) is strictly
\* increasing in write order, and no sequence_id is carried by two different
\* queued or batch envelopes.
C2_SequenceIdsIncreaseInWriteOrder ==
    /\ \A i, j \in 1..Len(wire) :
          ( /\ i < j
            /\ FromSendLoop(wire[i]) /\ FromSendLoop(wire[j])
            /\ wire[i].ok /\ wire[j].ok
            /\ wire[i].sock = wire[j].sock )
          => wire[i].msg.sequence_id < wire[j].msg.sequence_id
    /\ \A i, j \in 1..Len(wire) :
          ( /\ i # j
            /\ FromSendLoop(wire[i]) /\ FromSendLoop(wire[j]) )
          => wire[i].msg.sequence_id # wire[j].msg.sequence_id
    /\ \A i \in 1..Len(wire), k \in 1..Len(enqueued) :
          wire[i].msg.message_type = "batch"
          => wire[i].msg.sequence_id # enqueued[k].sequence_id

\* stop() has returned and start() has not been called since.
Stopped == stops > 0

\* C3: after stop() returns, is_connected is false and stays false until
\* start() is called again, whatever the connection manager was doing.
C3_StoppedStaysDisconnected == Stopped => ~is_connected

\* Every loop has terminated: no manager is alive (its read loop with it) and
\* the send and heartbeat tasks are finished or cancelled.
AllLoopsTerminated ==
    /\ \A m \in Managers : mgr[m].pc \in {"none", "done"}
    /\ send_pc \in {"none", "done", "cancelled"}
    /\ hb_pc \in {"none", "done", "cancelled"}

\* A step in which a loop connects, reads or writes on a socket.
SocketOperation ==
    \/ NextSock' # NextSock
    \/ wire' # wire
    \/ inbound' # inbound
    \/ \E m \in Managers : mgr[m].pc = "listening" /\ mgr'[m].pc # "listening"

\* C4: after stop() returns, all four loops have terminated, so that no loop
\* performs any further connect, read or write on a socket handle.
C4_NoSocketUseAfterStop ==
    [][(Stopped /\ Stopped') => ~SocketOperation]_vars

\* C4, its first half alone: once stop() has returned every loop has terminated.
C4_LoopsTerminatedAfterStop == Stopped => AllLoopsTerminated

\* A step of a stop() call: up to its await, or from its await to its return.
StopStep == ctl_pc' # ctl_pc \/ stops' = stops + 1

\* C5: a second stop() with no start() in between is a no-op: is_running,
\* is_connected, the socket handle, the queue, the sequence counter and the
\* statistics are left as the first call left them.
C5_SecondStopIsNoOp ==
    [][(Stopped /\ StopStep)
        => UNCHANGED <<is_running, is_connected, websocket, message_queue,
                       sequence_id, stats>>]_vars

\* The read loop dispatches a ping in this step.
PingStep == inbound' = inbound + 1 /\ last_in'.type = "ping"

\* An envelope is among those some frame of the history carries.
Written(history, e) ==
    \E i \in 1..Len(history) :
        \E k \in 1..Len(Members(history[i])) : Members(history[i])[k] = e

\* C6: a ping received while the session is connected makes the read loop issue
\* exactly one pong write straight on the connection: the pong is the one new
\* frame of the step, none of the envelopes pending in the queue has been
\* written when it is, and the queue is left unchanged.
C6_PingAnsweredBeforeQueuedTraffic ==
    [][(PingStep /\ is_connected)
        => /\ wire' = Append(wire, Frame(websocket, PongMessage, LastFrame'.ok))
           /\ message_queue' = message_queue
           /\ \A i \in 1..Len(message_queue) : ~Written(wire', message_queue[i])]_vars

\* A pong is the newest frame on the wire while queued envelopes still wait.
C6_Witness ==
    /\ last_in.type = "ping"
    /\ wire # <<>>
    /\ LastFrame.msg.message_type = "pong"
    /\ LastFrame.ok
    /\ message_queue # <<>>

\* Manager m's connect fails in this step, while the client is running.
FailedConnectStep(m) ==
    /\ mgr[m].pc = "connecting"
    /\ mgr'[m].fails = mgr[m].fails + 1
    /\ is_running

\* Manager m enters the read loop in this step.
EntersReadLoop(m) == mgr[m].pc = "handshaking" /\ mgr'[m].pc = "listening"

\* The constructor was given max_reconnect_attempts=3 and reconnect_delay=1.
ThreeAttemptsOneSecond ==
    cfg.max_reconnect_attempts = 3 /\ cfg.reconnect_delay = 1

\* C7 as claimed: with max_reconnect_attempts=3 and reconnect_delay=1, once
\* connect has failed 3 consecutive times the wait before the next connect
\* attempt is max_reconnect_delay, and when a connect succeeds the reconnect
\* attempt counter is 0.
C7_SlowRetryAfterThreeFailures ==
    /\ [](\A m \in Managers :
            ( /\ ThreeAttemptsOneSecond
              /\ mgr[m].fails = 3
              /\ mgr[m].pc \in {"backoff", "slow_wait"} )
            => mgr[m].delay = cfg.max_reconnect_delay)
    /\ [][\A m \in Managers : EntersReadLoop(m) => reconnect_attempts' = 0]_vars

\* C7 as amended: with max_reconnect_attempts=3 and reconnect_delay=1, a connect
\* that fails while the attempt counter is below 3 waits the exponential delay
\* 1, 2 or 4 for the counter it has raised to 1, 2 or 3 -- so the third
\* consecutive failure still waits 4 -- and only a connect that fails with the
\* counter already at 3 (the fourth consecutive failure) waits
\* max_reconnect_delay, after which the counter is back to 0; and when a connect
\* succeeds the counter is 0 on entering the read loop.
C7_SlowRetryAfterBudgetSpent ==
    [][\A m \in Managers :
        ThreeAttemptsOneSecond =>
            /\ FailedConnectStep(m) =>
                  IF reconnect_attempts < 3
                  THEN /\ mgr'[m].pc = "backoff"
                       /\ reconnect_attempts' = reconnect_attempts + 1
                       /\ mgr'[m].delay = <<1, 2, 4>>[reconnect_attempts']
                  ELSE /\ mgr'[m].pc = "slow_wait"
                       /\ reconnect_attempts = 3
                       /\ mgr'[m].delay = cfg.max_reconnect_delay
            /\ (mgr[m].pc = "slow_wait" /\ mgr'[m].pc # "slow_wait")
                  => reconnect_attempts' = 0
            /\ EntersReadLoop(m) => reconnect_attempts' = 0]_vars

\* The fourth consecutive failure has put the manager in the slow wait.
C7_Witness ==
    \E m \in Managers :
        /\ ThreeAttemptsOneSecond
        /\ mgr[m].pc = "slow_wait"
        /\ mgr[m].fails = 4
        /\ mgr[m].delay = cfg.max_reconnect_delay

\* base * 2^(n-1), by repeated doubling.
RECURSIVE Doubled(_, _)
Doubled(base, n) == IF n <= 1 THEN base ELSE 2 * Doubled(base, n - 1)

\* The delays the defaults reconnect_delay=5, max_reconnect_delay=300 give.
DefaultDelays == <<5, 10, 20, 40, 80, 160, 300, 300, 300, 300>>

\* C8: the delay waited before the n-th consecutive reconnect attempt (the
\* counter incremented first, 1 <= n <= max_reconnect_attempts) is
\* min(reconnect_delay * 2^(n-1), max_reconnect_delay); with reconnect_delay=5
\* and max_reconnect_delay=300 the delays for n = 1..6 are 5, 10, 20, 40, 80,
\* 160 and every later delay is 300.
C8_BackoffDelay ==
    [][\A m \in Managers :
        /\ (mgr[m].pc = "connecting" /\ mgr'[m].pc = "backoff") =>
              LET n == reconnect_attempts' IN
              /\ n = reconnect_attempts + 1
              /\ n \in 1..cfg.max_reconnect_attempts
              /\ mgr'[m].delay =
                    Min(Doubled(cfg.reconnect_delay, n), cfg.max_reconnect_delay)
              /\ (cfg.reconnect_delay = 5 /\ cfg.max_reconnect_delay = 300 /\ n <= 10)
                    => mgr'[m].delay = DefaultDelays[n]
        /\ (mgr[m].pc = "connecting" /\ mgr'[m].pc = "slow_wait") =>
              mgr'[m].delay = cfg.max_reconnect_delay]_vars

\* The seventh attempt under the defaults waits the cap, 300, not 320.
C8_Witness ==
    \E m \in Managers :
        /\ cfg = DefaultConfig
        /\ mgr[m].pc = "backoff"
        /\ reconnect_attempts = 7
        /\ mgr[m].delay = 300

\* The send worker runs one cycle with the client connected and envelopes queued.
SendCycle ==
    /\ send_pc = "loop"
    /\ is_running
    /\ is_connected
    /\ Len(message_queue) >= 1
    /\ <<message_queue, wire>>' # <<message_queue, wire>>

\* C9: one send cycle executed while connected with n >= 1 envelopes queued
\* removes exactly min(n, batch_size) envelopes from the queue, the oldest
\* ones, and writes exactly one frame, which carries them; with 25 envelopes
\* queued and batch_size=10 the frame is a batch of 10 and 15 stay queued.
C9_OneCycleOneFrame ==
    [][SendCycle =>
        LET n == Len(message_queue)
            k == IF n < cfg.batch_size THEN n ELSE cfg.batch_size
        IN  /\ Len(message_queue') = n - k
            /\ message_queue' = [i \in 1..(n - k) |-> message_queue[i + k]]
            /\ Len(wire') = Len(wire) + 1
            /\ SubSeq(wire', 1, Len(wire)) = wire
            /\ Members(LastFrame') = [i \in 1..k |-> message_queue[i]]
            /\ (n = 25 /\ cfg.batch_size = 10) =>
                  /\ LastFrame'.msg.message_type = "batch"
                  /\ Len(LastFrame'.msg.data.messages) = 10
                  /\ Len(message_queue') = 15]_vars

\* The send-loop frames of the history that carry envelope e.
FramesWith(e) ==
    {i \in 1..Len(wire) : \E j \in 1..Len(Members(wire[i])) : Members(wire[i])[j] = e}

\* The send-loop frames whose write fails in this step: the send raises at
\* once, or the send the worker is suspended in raises.
FailingFrames ==
    {i \in 1..Len(wire') :
        /\ FromSendLoop(wire'[i])
        /\ ~wire'[i].ok
        /\ i <= Len(wire) => wire[i].ok}

\* The send loop's write fails in this step.
FailedWriteStep == FailingFrames # {}

\* The send loop's write fails in this step before it reaches the socket: the
\* cycle takes envelopes off the queue and hands no frame to websocket.send().
UnwrittenStep == DequeueStep /\ wire' = wire

\* C10: every enqueued envelope is written to the connection at most once; when
\* the write of a dequeued envelope or batch fails, its envelopes are not put
\* back on the queue and are never written later, and the connection is marked
\* disconnected.
C10_AtMostOnce ==
    /\ [](\A i \in 1..Len(enqueued) :
            /\ Cardinality(FramesWith(enqueued[i])) <= 1
            /\ FramesWith(enqueued[i]) # {} =>
                  \A j \in 1..Len(message_queue) : message_queue[j] # enqueued[i])
    /\ [][FailedWriteStep =>
            /\ ~is_connected'
            /\ \A i \in FailingFrames :
                  \A j \in 1..Len(Members(wire'[i])) :
                      \A q \in 1..Len(message_queue') :
                          message_queue'[q] # Members(wire'[i])[j]]_vars
    /\ [][UnwrittenStep =>
            /\ ~is_connected'
            /\ \A j \in 1..Len(Dequeued) :
                  \A q \in 1..Len(message_queue') :
                      message_queue'[q] # Dequeued[j]]_vars

\* The sockets that were opened and that nobody has closed.
OpenSockets == {s \in SocketIds : socks[s] = "open"}

\* C11: at every moment at most one connection to the dashboard is open:
\* whenever the connection manager opens a new socket, every previously opened
\* socket has already been closed.
C11_AtMostOneOpenSocket == Cardinality(OpenSockets) <= 1

\* Every sequence id handed out so far that the histories show.
AssignedIds ==
    {enqueued[i].sequence_id : i \in 1..Len(enqueued)}
        \cup {wire[i].msg.sequence_id : i \in 1..Len(wire)}

\* C12: the sequence counter is never reset or decreased, whatever step is
\* taken (a disconnect, a reconnect, stop()), and an envelope created by a
\* queued publisher call gets a sequence_id greater than every sequence_id
\* assigned before, so also greater than those of before the disconnect.
C12_SequenceContinuesAcrossReconnect ==
    [][/\ sequence_id' >= sequence_id
       /\ Len(enqueued') = Len(enqueued) + 1 =>
             \A id \in AssignedIds : enqueued'[Len(enqueued')].sequence_id > id]_vars

\* An envelope went out on the first socket and a later one on the second.
C12_Witness ==
    /\ websocket = 2
    /\ \E i, j \in 1..Len(wire) :
          /\ i < j
          /\ FromSendLoop(wire[i]) /\ wire[i].sock = 1
          /\ FromSendLoop(wire[j]) /\ wire[j].sock = 2 /\ wire[j].ok
          /\ wire[j].msg.sequence_id > wire[i].msg.sequence_id

\* C13: while the client is running the connection manager never gives up:
\* a connect that fails leaves the manager in one of its two waits (the failure
\* does not escape the loop), and from a wait or from the pause that ends an
\* iteration the manager reaches its next connect attempt, also after the
\* reconnect budget is exhausted, unless the client is no longer running.
C13_ManagerNeverGivesUp ==
    /\ [][\A m \in Managers :
            FailedConnectStep(m) => mgr'[m].pc \in {"backoff", "slow_wait"}]_vars
    /\ \A m \in Managers :
          (mgr[m].pc \in {"backoff", "slow_wait", "loop"})
              ~> (mgr[m].pc = "connecting" \/ ~is_running)

\* The budget of three was spent, the slow wait is over, and the manager is
\* connecting again.
C13_Witness ==
    \E m \in Managers :
        /\ ThreeAttemptsOneSecond
        /\ is_running
        /\ mgr[m].fails = 4
        /\ reconnect_attempts = 0
        /\ mgr[m].pc = "connecting"

\* The read loop receives a frame whose decoding or handler raises.
DropStep == inbound' = inbound + 1 /\ dropped' = dropped + 1

\* C14: an inbound frame that is malformed, or whose handler raises, is dropped
\* without ending the read loop: every manager stays where it was, reading the
\* same socket, the socket stays open, is_connected, the queue, the
\* configuration and the write history are unchanged; and a ping that follows
\* a dropped frame is still dispatched and answered.
C14_MalformedFrameDropped ==
    [][/\ DropStep =>
             /\ mgr' = mgr
             /\ \E m \in Managers :
                   mgr'[m].pc = "listening" /\ socks'[mgr'[m].sock] = "open"
             /\ UNCHANGED <<socks, is_connected, websocket, message_queue, config,
                            wire, stats, sequence_id, reconnect_attempts>>
       /\ (dropped > 0 /\ PingStep /\ CanSend) =>
             /\ Len(wire') = Len(wire) + 1
             /\ LastFrame'.msg = PongMessage]_vars

\* A malformed frame was dropped and the ping after it was answered.
C14_Witness ==
    /\ dropped = 1
    /\ inbound = 2
    /\ last_in.type = "ping"
    /\ is_connected
    /\ LastFrame.msg = PongMessage
    /\ LastFrame.ok

\* A queued publisher call is made in this step.
EnqueueStep == Len(enqueued') = Len(enqueued) + 1

\* The data of the system_status envelopes now queued.
QueuedStatus ==
    {message_queue[i].data : i \in {j \in 1..Len(message_queue) :
                                        message_queue[j].message_type = "system_status"}}

\* C15: a queued publisher call never blocks and never drops or rejects the
\* envelope, in every client state: while sequence ids remain, each of the four
\* calls can be made, and a call makes the queue exactly one longer, with the
\* new envelope at the tail and the envelopes before it untouched.
C15_EnqueueAlwaysAccepted ==
    /\ [](budget > 0 =>
            /\ ENABLED send_portfolio_data
            /\ ENABLED send_trade_signal
            /\ ENABLED send_risk_alert
            /\ ENABLED send_system_status)
    /\ [][EnqueueStep =>
            /\ Len(message_queue') = Len(message_queue) + 1
            /\ message_queue' = Append(message_queue, enqueued'[Len(enqueued')])]_vars

\* The queue holds envelopes accepted while not running, while running and
\* disconnected, and while connected.
C15_Witness ==
    /\ \E d \in QueuedStatus : d.status = "stopped" /\ d.connection = "disconnected"
    /\ \E d \in QueuedStatus : d.status = "running" /\ d.connection = "disconnected"
    /\ \E d \in QueuedStatus : d.status = "running" /\ d.connection = "connected"

\* ------------------------------------------------------------- the codec

\* default=str: a datetime is written as the string str(datetime), a value
\* that equals no datetime; None, which last_heartbeat holds before the first
\* stamp, is written as null.  The string of stamp t is represented by 0 - t.
default_str(t) == 0 - t

\* What json.dumps(..., default=str) writes for the dict of an envelope: the
\* statistics a system_status carries have last_heartbeat as a string.
jsonable_envelope(d) ==
    IF d.message_type = "system_status"
    THEN [d EXCEPT !.data.stats.last_heartbeat = default_str(@)]
    ELSE d

jsonable(d) ==
    IF d.message_type = "batch"
    THEN [d EXCEPT !.data.messages = [i \in 1..Len(@) |-> jsonable_envelope(@[i])]]
    ELSE jsonable_envelope(d)

\* json.dumps(value, default=str): the text that stands for a value, given
\* the dict of an envelope or the compression marker; json.loads: the value a
\* text stands for.  gzip.compress and base64.b64encode wrap what they are given.
json_dumps(value) ==
    [json |-> IF "message_type" \in DOMAIN value THEN jsonable(value) ELSE value]
json_loads(text) == text.json
gzip_compress(text) == [gzip |-> text]
b64encode(bytes) == [b64 |-> bytes]

\* _send_raw_message: the text handed to websocket.send().
encode(message, compress) ==
    IF compress
    THEN json_dumps([compressed |-> TRUE,
                     data |-> b64encode(gzip_compress(json_dumps(asdict(message))))])
    ELSE json_dumps(asdict(message))

\* _listen_for_messages: json.loads(message), and nothing else, before dispatch.
decode(final_message) == json_loads(final_message)

\* C16: decode(encode(envelope, compress=true)) == envelope for every envelope
\* the client sends: the frame produced by the compressing encoder decodes back
\* to the original envelope.
C16_CompressedRoundTrip ==
    \A i \in 1..Len(wire) :
        decode(encode(wire[i].msg, TRUE)) = asdict(wire[i].msg)

\* --------------------------------------- a session whose writes may fail

\* The send worker and the manager of a connected session; the remote side may
\* close the socket, and need not.
NextSession ==
    \/ send_worker
    \/ send_return
    \/ send_raise
    \/ \E m \in Managers :
        \/ read_end(m)
        \/ manager_loop(m)
    \/ \E s \in SocketIds : remote_close(s)

\* Every task of the event loop runs when it is ready: the send worker after
\* its sleep, the read loop when its socket has closed, the manager after its
\* pause.  Nothing obliges the remote side to close.
SessionFairness ==
    /\ WF_vars(send_worker)
    /\ WF_vars(send_return)
    /\ ManagerFairness
    /\ \A m \in Managers : WF_vars(read_end(m))

SpecSession == InitBacklog /\ [][NextSession]_vars /\ SessionFairness

\* Some write on socket s raised.
WriteFailedOn(s) == \E i \in 1..Len(wire) : wire[i].sock = s /\ ~wire[i].ok

\* C17: while running, a write failure on the live connection moves the
\* connection manager out of its read loop into the reconnect cycle: a new
\* connect attempt eventually follows, whether or not the remote side closes
\* the old socket.
C17_WriteFailureLeadsToReconnect ==
    \A m \in Managers :
        (is_running /\ mgr[m].pc = "listening" /\ WriteFailedOn(mgr[m].sock))
            ~> (mgr[m].pc = "connecting" \/ ~is_running)

\* Manager m's read loop ends in this step while the client is running: a read
\* failure or a close of the socket was detected.
ReadLoopEnds(m) ==
    /\ is_running
    /\ mgr[m].pc = "listening"
    /\ mgr'[m].pc \notin {"listening", "ponging"}

\* C18: whenever a connected session ends because of a read failure or a
\* remote close detected in the read loop, the manager passes through
\* RECONNECT_WAIT before the next connect attempt: the reconnect attempt counter
\* is incremented and the backoff delay
\* min(reconnect_delay * 2^(attempt-1), max_reconnect_delay) is waited.
C18_ReadFailureBacksOff ==
    [][\A m \in Managers :
        ReadLoopEnds(m) =>
            /\ mgr'[m].pc = "backoff"
            /\ reconnect_attempts' = reconnect_attempts + 1
            /\ mgr'[m].delay =
                  Min(Doubled(cfg.reconnect_delay, reconnect_attempts'),
                      cfg.max_reconnect_delay)]_vars

\* Frame i of the history is a handshake.
IsHandshake(i) == wire[i].msg.message_type = "handshake"

\* C19: the session becomes CONNECTED only after the handshake send succeeds:
\* nothing is written on a socket before its handshake has been written, and a
\* socket whose handshake write failed never becomes CONNECTED, so no other
\* write on it ever succeeds.
C19_ConnectedOnlyAfterHandshake ==
    /\ \A i \in 1..Len(wire) :
          ~IsHandshake(i) =>
              \E j \in 1..(i - 1) : IsHandshake(j) /\ wire[j].sock = wire[i].sock
    /\ \A i, j \in 1..Len(wire) :
          (IsHandshake(i) /\ ~wire[i].ok /\ wire[j].sock = wire[i].sock /\ j # i)
              => ~wire[j].ok
    /\ \A i \in 1..Len(wire) :
          (IsHandshake(i) /\ ~wire[i].ok) => ~(is_connected /\ websocket = wire[i].sock)

\* The sessions that reached CONNECTED: the sockets whose transport connect
\* succeeded and whose handshake was sent.
ConnectedSessions == {i \in 1..Len(wire) : IsHandshake(i) /\ wire[i].ok}

\* C20: the reconnections counter is incremented exactly once per entry into
\* CONNECTED: it equals the number of sessions whose transport connect and
\* handshake send both succeeded; a failed connect or a failed handshake does
\* not change it.
C20_ReconnectionsCountSessions ==
    stats.reconnections = Cardinality(ConnectedSessions)

\* Manager m is in the read loop of a session (or answering a ping in it).
InReadLoop(m) == mgr[m].pc \in {"listening", "ponging"}

\* C21: on every entry into CONNECTED the reconnect attempt counter is reset to
\* 0, and it is 0 for as long as the read loop of that session runs.
C21_CounterZeroWhileConnected ==
    \A m \in Managers : InReadLoop(m) => reconnect_attempts = 0

\* The frames written directly, without passing through the queue.
DirectTypes == {"handshake", "pong", "heartbeat"}

\* This step writes a handshake, a pong or a heartbeat.
DirectSendStep ==
    /\ Len(wire') = Len(wire) + 1
    /\ wire'[Len(wire')].msg.message_type \in DirectTypes

\* C22: handshake, pong and heartbeat sends are exempt from the sequence
\* stream: sending one does not change the sequence counter.
C22_DirectSendKeepsCounter ==
    [][DirectSendStep => sequence_id' = sequence_id]_vars

\* C23: a send cycle that dequeues exactly one envelope writes it as a
\* standalone frame with its own sequence_id and does not advance the sequence
\* counter; a cycle that dequeues two or more writes them as one batch envelope
\* whose messages list is the dequeued envelopes in dequeue order and whose
\* sequence_id is a fresh counter value greater than every member's.
C23_StandaloneOrBatch ==
    [][DequeueStep =>
        /\ Len(wire') = Len(wire) + 1
        /\ Len(Dequeued) = 1 =>
              /\ LastFrame'.msg = message_queue[1]
              /\ sequence_id' = sequence_id
        /\ Len(Dequeued) >= 2 =>
              /\ LastFrame'.msg.message_type = "batch"
              /\ LastFrame'.msg.data.messages = Dequeued
              /\ sequence_id' = sequence_id + 1
              /\ LastFrame'.msg.sequence_id = sequence_id'
              /\ \A i \in 1..Len(Dequeued) :
                    Dequeued[i].sequence_id < LastFrame'.msg.sequence_id]_vars

\* This step is a heartbeat write; the write raised.
HeartbeatStep ==
    /\ Len(wire') = Len(wire) + 1
    /\ LastFrame'.msg.message_type = "heartbeat"

\* A heartbeat write fails in this step: the send raises at once, or the
\* send its caller is suspended in raises.
FailedHeartbeatStep ==
    \/ HeartbeatStep /\ ~LastFrame'.ok
    \/ \E i \in 1..Len(wire) :
          /\ wire[i].msg.message_type = "heartbeat"
          /\ wire[i].ok
          /\ ~wire'[i].ok

\* C24: a heartbeat is written directly and never enqueued (queue contents
\* unchanged), and a failed heartbeat write is only logged and retried: the
\* heartbeat loop keeps running and is still in the condition under which its
\* next period attempts a heartbeat (running and connected).
C24_HeartbeatFailureOnlyLogged ==
    [][/\ HeartbeatStep =>
            /\ message_queue' = message_queue
            /\ enqueued' = enqueued
       /\ FailedHeartbeatStep =>
            /\ hb_pc \in {"loop", "sending"} => hb_pc' = "loop"
            /\ is_running' = is_running
            /\ is_connected']_vars

\* The envelopes now in the queue.
Queued == {message_queue[i] : i \in 1..Len(message_queue)}

\* C25: an envelope is immutable once enqueued: no step changes what a queued
\* envelope serializes to, so the content written by the send loop equals the
\* content at enqueue time, for every envelope type including system_status,
\* even if the statistics or the configuration change in between.
C25_QueuedEnvelopeImmutable ==
    [][\A e \in Queued : asdict(e)' = asdict(e)]_vars

\* The read loop handles a config_update in this step.
ConfigUpdateStep == inbound' = inbound + 1 /\ last_in'.type = "config_update"

\* C26: a config_update merges only keys already present in the live
\* configuration: for every recognized key in the update the configuration
\* value becomes the update's value, every unrecognized key is ignored (and
\* every key the update does not name keeps its value), and the set of
\* configuration keys is the same before and after the update.
C26_ConfigUpdateMergesKnownKeys ==
    [][ConfigUpdateStep =>
        LET update == last_in'.config
        IN  /\ \A k \in DOMAIN update \cap DOMAIN config : config'[k] = update[k]
            /\ \A k \in DOMAIN update \ DOMAIN config : k \notin DOMAIN config'
            /\ \A k \in DOMAIN config \ DOMAIN update : config'[k] = config[k]
            /\ DOMAIN config' = DOMAIN config]_vars

\* The update received named batch_size, with a value other than the one the
\* client was built with, and a key the client does not have: batch_size has
\* the update's value, compress_data kept its own, and the other key is absent.
C26_Witness ==
    /\ last_in.type = "config_update"
    /\ DOMAIN last_in.config = {"batch_size", "bogus"}
    /\ last_in.config.batch_size = 4
    /\ config.batch_size = 4
    /\ config.batch_size # cfg.batch_size
    /\ config.compress_data = 1
    /\ "bogus" \notin DOMAIN config

\* The read loop handles a get_status command in this step.
GetStatusStep == inbound' = inbound + 1 /\ last_in'.type = "get_status"

\* C27: a command of type get_status received by the read loop emits exactly
\* one system_status envelope reporting the client's current running and
\* connected state: the queue grows by that one envelope and nothing is written.
C27_GetStatusEmitsOneStatus ==
    [][GetStatusStep =>
        /\ Len(message_queue') = Len(message_queue) + 1
        /\ SubSeq(message_queue', 1, Len(message_queue)) = message_queue
        /\ Len(enqueued') = Len(enqueued) + 1
        /\ wire' = wire
        /\ LET e == message_queue'[Len(message_queue')]
           IN  /\ e.message_type = "system_status"
               /\ e.data.status = (IF is_running THEN "running" ELSE "stopped")
               /\ e.data.connection =
                     (IF is_connected THEN "connected" ELSE "disconnected")]_vars

\* A get_status command was received on a session the client had marked
\* disconnected after a failed write, and the newest envelope reports it.
C27_Witness ==
    /\ last_in.type = "get_status"
    /\ \E i \in 1..Len(enqueued) :
          /\ enqueued[i].message_type = "system_status"
          /\ enqueued[i].data.connection = "disconnected"
          /\ enqueued[i].data.status = "running"
          /\ i = Len(enqueued)
          /\ inbound = 1

\* C28: the send loop never removes envelopes from the queue while
\* is_connected is false: a step taken in a disconnected state leaves every
\* queued envelope in place, so the queue contents only grow until a session is
\* connected.
C28_QueueKeptWhileDisconnected ==
    [][~is_connected =>
        /\ Len(message_queue') >= Len(message_queue)
        /\ SubSeq(message_queue', 1, Len(message_queue)) = message_queue]_vars

\* The send loop is awake in an outage that followed a failed write, with
\* envelopes queued before and during it.
C28_Witness ==
    /\ is_running
    /\ ~is_connected
    /\ send_pc = "loop"
    /\ Len(message_queue) >= 2
    /\ \E i \in 1..Len(wire) : FromSendLoop(wire[i]) /\ ~wire[i].ok

\* C29: in every reachable state 0 <= reconnect_attempts <=
\* max_reconnect_attempts, under any sequence of connect failures, successes
\* and disconnects.
C29_ReconnectAttemptsBounded ==
    /\ 0 <= reconnect_attempts
    /\ reconnect_attempts <= cfg.max_reconnect_attempts

\* With the default budget of 10 the counter stands at 10 and one more connect
\* has failed: the manager is in the slow wait with the counter not raised.
C29_Witness ==
    /\ cfg = DefaultConfig
    /\ reconnect_attempts = cfg.max_reconnect_attempts
    /\ \E m \in Managers : mgr[m].pc = "slow_wait" /\ mgr[m].fails = 11

\* The connection-manager loops that are alive.
AliveManagers == {m \in Managers : mgr[m].pc \notin {"none", "done"}}

\* C30: under any sequence of start() and stop() calls at most one
\* connection-manager loop (and one send loop and one heartbeat loop, each held
\* in a single task handle) is alive at a time: start() after stop() never runs
\* alongside a manager left over from the previous run.
C30_AtMostOneManager == Cardinality(AliveManagers) <= 1

\* ------------------------------------------------ the send loop, scheduled

\* The send worker is a task of the event loop: it wakes up after every
\* sleep(send_interval), and a websocket.send() it awaits returns.
SendFairness == WF_vars(send_worker) /\ WF_vars(send_return)

\* A connected client with a backlog and no producer, its send loop scheduled.
SpecDrain == InitBacklog /\ [][NextBacklog]_vars /\ SendFairness

\* C31: if the client keeps running, the session stays connected with every
\* write succeeding, and producers stop enqueuing, then the queue eventually
\* becomes empty, every enqueued envelope having been dequeued and written.
C31_QueueEventuallyDrains ==
    <>(\/ ~is_connected
       \/ /\ message_queue = <<>>
          /\ Taken = enqueued
          /\ \A i \in 1..Len(wire) : wire[i].ok)

\* This step stamps stats.last_heartbeat.
StampStep == stats'.last_heartbeat # stats.last_heartbeat

\* C32: stats.last_heartbeat is updated only when a heartbeat frame was
\* actually written successfully: the step that stamps it is the return of a
\* heartbeat write that succeeded, and a heartbeat attempt whose write failed or
\* was skipped leaves last_heartbeat unchanged.
C32_StampOnlyAfterWrittenHeartbeat ==
    [][/\ StampStep =>
            /\ hb_pc = "sending"
            /\ hb_pc' = "loop"
            /\ stats'.messages_sent = stats.messages_sent + 1
            /\ stats'.messages_failed = stats.messages_failed
            /\ wire[pending.hb].msg.message_type = "heartbeat"
            /\ wire'[pending.hb].ok
       /\ FailedHeartbeatStep => ~StampStep]_vars

====
